---- MODULE Spec2Model ----
(***************************************************************************)
(* A model of the point cloud viewer (src/src/main.cpp): the OpenGL object *)
(* tables the program allocates from, scene loading and replacement, the   *)
(* per-frame draw submissions, the projection/viewport update, the camera  *)
(* rotation update and the frame pacing of the main loop.                  *)
(*                                                                         *)
(* The main loop is modelled by specifications over disjoint groups   *)
(* of variables; a block of the loop that neither reads nor writes a       *)
(* group's variables is left out of that group's specification:            *)
(*   Spec        shaders, scene load/replace, draws, close                 *)
(*   SpecScene   the runs of Spec in which both shader programs build      *)
(*   SpecBounds  the bounding box computed by loadScene, per input file    *)
(*   SpecView    framebuffer size, aspect ratio, projection, viewport      *)
(*   SpecCamera  mouse look (yaw / pitch)                                  *)
(*   SpecPacing  sleep / carry frame pacing                                *)
(*                                                                         *)
(* Floats are modelled by integers: coordinates are integers, angles are   *)
(* counted in 1e-5 rad, durations in ticks (frameTime ticks are 1/60 s).   *)
(***************************************************************************)
EXTENDS Integers, Sequences, FiniteSets, TLC

VARIABLES
    pc,                \* position of main(): startup, top, gui, gui_rendering, draw_points, draw_bounds, poll, exited
    exitCode,          \* -1 while running, else the exit status (134: abort())
    shouldClose,       \* glfwWindowShouldClose(window)
    glPrograms,        \* GL shader and program objects: name -> [kind, linked, flagged]
    glVAOs,            \* GL vertex array objects: name -> [a0, a1, ebo] (buffer names, 0 = none)
    glBuffers,         \* GL buffer objects: name -> [size, named]
    genVAO,            \* highest name glGenVertexArrays has returned so far
    genBuffer,         \* highest name glGenBuffers has returned so far
    shaderOk,          \* the values the two createShader calls returned (main discards them)
    pointcloundShader, \* GLuint pointcloundShader
    shapeShader,       \* GLuint shapeShader
    bounds,            \* GLuint bounds
    meshes,            \* std::vector<std::pair<GLuint, size_t>> meshes
    boundsData,        \* the 24 floats last uploaded as boundsData
    drawBounds,        \* bool drawBounds
    loads,             \* number of "Load Scene" clicks answered with a file so far
    loadResult,        \* what LoadObj returned for the last file chosen: none, ok, failed
    draws,             \* draw calls submitted in the current frame
    objFile,           \* SpecBounds: the shapes tinyobj::LoadObj returns for the chosen file
    fbSize,            \* the window's framebuffer size <<w, h>> (changed by resize events)
    width, height,     \* int width, height
    ratio,             \* float ratio, as the reduced fraction <<num, den>>
    projT,             \* aspect ratio argument of the projection matrix projT
    viewport,          \* the last glViewport size <<w, h>>
    vpc,               \* SpecView position: startup, update, drawn
    angles,            \* glm::vec3 angles: [x |-> pitch, y |-> yaw]
    camRot,            \* the (pitch, yaw) pair camRot was last built from
    mouseSensitivity,  \* float mouseSensitivity, in tenths
    rotated,           \* SpecCamera: the last frame took the rotate branch
    camFrames,         \* SpecCamera: frames so far
    clock,             \* high_resolution_clock::now()
    start, end,        \* time points start, end
    elapsed, carry,    \* durations elapsed, carry ("uninit" until first assigned)
    delta,             \* (end - start) of the last timestamp
    ppc,               \* SpecPacing position: top (loop test), body (rest of the iteration)
    frames,            \* number of timestamps taken
    firstEnd           \* the first frame timestamp

sceneVars == <<pc, exitCode, shouldClose, glPrograms, glVAOs, glBuffers, genVAO,
               genBuffer, shaderOk,
               pointcloundShader, shapeShader, bounds, meshes, boundsData,
               drawBounds, loads, loadResult, draws, objFile>>
viewVars == <<fbSize, width, height, ratio, projT, viewport, vpc>>
cameraVars == <<angles, camRot, mouseSensitivity, rotated, camFrames>>
pacingVars == <<clock, start, end, elapsed, carry, delta, ppc, frames, firstEnd>>
vars == <<sceneVars, viewVars, cameraVars, pacingVars>>

----------------------------------------------------------------------------
(* Bounds of the model *)

MaxShapes == 1      \* shapes per loaded file (Spec)
MaxVerts == 2       \* position / normal triples per shape (Spec)
MaxLoads == 2       \* files loaded per run (Spec)

----------------------------------------------------------------------------
(* OpenGL object tables *)

\* glGen*: any unused name.  top is the highest name handed out so far: a
\* name released earlier may come back, and top + 1 stands for the names
\* never handed out, which nothing can tell apart.  The name of a buffer
\* that was deleted while still attached stays taken.
GenNames(used, top) == {n \in 1..(top + 1) : n \notin used}

Highest(names) == IF names = {} THEN 0 ELSE CHOOSE m \in names : \A n \in names : n <= m

Put(f, k, v) == [x \in DOMAIN f \cup {k} |-> IF x = k THEN v ELSE f[x]]
Drop(f, ks) == [x \in DOMAIN f \ ks |-> f[x]]

\* glGenVertexArrays(1, &v); glBindVertexArray(v): the answers the driver
\* may give, each with the context it leaves
glGenVertexArrays(ctx) ==
    {[name |-> n,
      ctx |-> [ctx EXCEPT !.vaos = Put(@, n, [a0 |-> 0, a1 |-> 0, ebo |-> 0]),
                          !.vaoTop = IF n > @ THEN n ELSE @]] :
        n \in GenNames(DOMAIN ctx.vaos, ctx.vaoTop)}

\* glGenBuffers(1, &b); glBindBuffer(target, b)
glGenBuffers(ctx) ==
    {[name |-> n,
      ctx |-> [ctx EXCEPT !.bufs = Put(@, n, [size |-> 0, named |-> TRUE]),
                          !.bufTop = IF n > @ THEN n ELSE @]] :
        n \in GenNames(DOMAIN ctx.bufs, ctx.bufTop)}

\* glBufferData(target, size, data, GL_STATIC_DRAW) on buffer b, size in floats
glBufferData(ctx, b, size) == [ctx EXCEPT !.bufs[b].size = size]

\* glVertexAttribPointer(0, ...) with b bound to GL_ARRAY_BUFFER and v bound
glVertexAttribPointer0(ctx, v, b) == [ctx EXCEPT !.vaos[v].a0 = b]

\* glVertexAttribPointer(1, ...)
glVertexAttribPointer1(ctx, v, b) == [ctx EXCEPT !.vaos[v].a1 = b]

\* glBindBuffer(GL_ELEMENT_ARRAY_BUFFER, b) with v bound
glBindElementBuffer(ctx, v, b) == [ctx EXCEPT !.vaos[v].ebo = b]

\* buffers some vertex array of vaos still references
Attached(vaos) ==
    UNION {{vaos[v].a0, vaos[v].a1, vaos[v].ebo} : v \in DOMAIN vaos} \ {0}

\* glDeleteBuffers(1, &b): the name is released; the storage goes once no
\* vertex array references it
glDeleteBuffers(ctx, b) ==
    IF b \notin DOMAIN ctx.bufs THEN ctx
    ELSE IF b \in Attached(ctx.vaos)
         THEN [ctx EXCEPT !.bufs[b].named = FALSE]
         ELSE [ctx EXCEPT !.bufs = Drop(ctx.bufs, {b})]

\* glDeleteVertexArrays(1, &v): unknown names and 0 are ignored; buffers
\* already deleted by name and referenced by no other vertex array go too
glDeleteVertexArrays(ctx, v) ==
    IF v \notin DOMAIN ctx.vaos THEN ctx
    ELSE LET vaos1 == Drop(ctx.vaos, {v})
             gone == {b \in DOMAIN ctx.bufs :
                        ~ctx.bufs[b].named /\ b \notin Attached(vaos1)}
         IN [ctx EXCEPT !.vaos = vaos1, !.bufs = Drop(ctx.bufs, gone)]

----------------------------------------------------------------------------
(* createShader *)

Uninit == "uninit"

\* stands for every GLuint that is neither 0 nor the name of an object
NoObject == -1

\* values an uninitialized GLuint may hold when it is read, up to what GL
\* can tell apart: 0, the name of any shader or program object, or a value
\* that names no object
IndeterminateGLuint(objects) == {0} \cup DOMAIN objects \cup {NoObject}

\* the value later read from the GLuint declared without initializer that
\* a createShader call was given: indeterminate unless the call assigned it
Held(made, objects) ==
    IF made.assigned THEN {made.prog} ELSE IndeterminateGLuint(objects)

\* what the driver can answer: every stage succeeds, or the vertex shader,
\* the fragment shader or the link fails.  The test after glValidateProgram
\* reads GL_LINK_STATUS again, so it fails exactly when the link test does.
ShaderOutcomes == {"ok", "vert", "frag", "link"}

\* glCreateShader / glCreateProgram: shaders and programs share one name
\* space, and no name of it is ever released
NewObject(objects, kind, linked) ==
    {[name |-> n,
      objects |-> Put(objects, n, [kind |-> kind, linked |-> linked, flagged |-> FALSE])] :
        n \in GenNames(DOMAIN objects, Highest(DOMAIN objects))}

\* glDeleteShader of a shader attached to a program: flagged for deletion,
\* kept (with its name) while it stays attached
FlagShaders(objects, shaders) ==
    [n \in DOMAIN objects |->
        IF n \in shaders THEN [objects[n] EXCEPT !.flagged = TRUE] ELSE objects[n]]

\* createShader(prog, vertSrc, fragSrc): prog is assigned only once both
\* shaders compiled; the shaders are deleted only when every stage passed; the
\* result is the bool returned
createShader(prog, outcome, objects) ==
    UNION {UNION {
        {IF outcome = "vert"
         THEN [ok |-> FALSE, assigned |-> FALSE, prog |-> prog, programs |-> vert.objects]
         ELSE IF outcome = "frag"
         THEN [ok |-> FALSE, assigned |-> FALSE, prog |-> prog, programs |-> frag.objects]
         ELSE IF outcome = "link"
         THEN [ok |-> FALSE, assigned |-> TRUE, prog |-> p.name, programs |-> p.objects]
         ELSE [ok |-> TRUE, assigned |-> TRUE, prog |-> p.name,
               programs |-> FlagShaders(p.objects, {vert.name, frag.name})] :
            p \in NewObject(frag.objects, "program", outcome = "ok")} :
        frag \in NewObject(vert.objects, "shader", FALSE)} :
        vert \in NewObject(objects, "shader", FALSE)}

----------------------------------------------------------------------------
(* loadScene *)

Vec3(a, b, c) == [x |-> a, y |-> b, z |-> c]

\* Accumulate with min.y taken from the x comparison
AccumulateXForY(tmp, mm) ==
    [min |-> Vec3(IF tmp.x < mm.min.x THEN tmp.x ELSE mm.min.x,
                  IF tmp.x < mm.min.x THEN tmp.x ELSE mm.min.y,
                  IF tmp.z < mm.min.z THEN tmp.z ELSE mm.min.z),
     max |-> Vec3(IF tmp.x > mm.max.x THEN tmp.x ELSE mm.max.x,
                  IF tmp.y > mm.max.y THEN tmp.y ELSE mm.max.y,
                  IF tmp.z > mm.max.z THEN tmp.z ELSE mm.max.z)]

\* lines 194-202: one vertex folded into the running min / max
Accumulate(tmp, mm) ==
    [min |-> Vec3(IF tmp.x < mm.min.x THEN tmp.x ELSE mm.min.x,
                  IF tmp.y < mm.min.y THEN tmp.y ELSE mm.min.y,
                  IF tmp.z < mm.min.z THEN tmp.z ELSE mm.min.z),
     max |-> Vec3(IF tmp.x > mm.max.x THEN tmp.x ELSE mm.max.x,
                  IF tmp.y > mm.max.y THEN tmp.y ELSE mm.max.y,
                  IF tmp.z > mm.max.z THEN tmp.z ELSE mm.max.z)]

\* the loop over the flat positions array, three floats a step (j is 1-based)
RECURSIVE ScanPositions(_, _, _)
ScanPositions(positions, j, mm) ==
    IF j > Len(positions) THEN mm
    ELSE ScanPositions(positions, j + 3,
             Accumulate(Vec3(positions[j], positions[j + 1], positions[j + 2]), mm))

\* &v[0] of a std::vector (lines 211, 219): undefined when v is empty.  The
\* build either passes a pointer nothing is read through (the size is 0) or
\* aborts on the library's bounds assertion.
FirstElement(v) == IF Len(v) = 0 THEN {"pointer", "abort"} ELSE {"pointer"}

\* lines 216-231: the normals buffer, the two glDeleteBuffers and the pair
\* pushed to meshes
UploadNormals(ctx, shape, mesh, posVBO) ==
    UNION {{IF first = "abort"
            THEN [abort |-> TRUE, ctx |-> nor.ctx, mesh |-> << >>]
            ELSE [abort |-> FALSE,
                  ctx |-> glDeleteBuffers(
                              glDeleteBuffers(
                                  glVertexAttribPointer1(
                                      glBufferData(nor.ctx, nor.name, Len(shape.normals)),
                                      mesh, nor.name),
                                  posVBO),
                              nor.name),
                  mesh |-> <<mesh, Len(shape.positions)>>] :
              first \in FirstElement(shape.normals)} :
           nor \in glGenBuffers(ctx)}

\* lines 208-214, then UploadNormals: the positions buffer
UploadPositions(ctx, shape, mesh) ==
    UNION {UNION {IF first = "abort"
                  THEN {[abort |-> TRUE, ctx |-> pos.ctx, mesh |-> << >>]}
                  ELSE UploadNormals(
                           glVertexAttribPointer0(
                               glBufferData(pos.ctx, pos.name, Len(shape.positions)),
                               mesh, pos.name),
                           shape, mesh, pos.name) :
                    first \in FirstElement(shape.positions)} :
           pos \in glGenBuffers(ctx)}

\* lines 205-231: the vertex array of one shape, its two buffers, and the
\* pair pushed to meshes
UploadShape(ctx, shape) ==
    UNION {UploadPositions(v.ctx, shape, v.name) : v \in glGenVertexArrays(ctx)}

\* the loop over shapes, lines 186-232 (i is 1-based)
RECURSIVE LoadShapes(_, _, _, _, _)
LoadShapes(ctx, shapes, i, mm, ms) ==
    IF i > Len(shapes) THEN {[abort |-> FALSE, ctx |-> ctx, mm |-> mm, meshes |-> ms]}
    ELSE UNION {IF up.abort
                THEN {[abort |-> TRUE, ctx |-> up.ctx, mm |-> mm, meshes |-> ms]}
                ELSE LoadShapes(up.ctx, shapes, i + 1,
                                ScanPositions(shapes[i].positions, 1, mm),
                                Append(ms, up.mesh)) :
                  up \in UploadShape(ctx, shapes[i])}

\* float boundsData[], lines 239-248
BoundsData(min, max) ==
    <<min.x, min.y, min.z,  max.x, min.y, min.z,
      min.x, max.y, min.z,  max.x, max.y, min.z,
      min.x, min.y, max.z,  max.x, min.y, max.z,
      min.x, max.y, max.z,  max.x, max.y, max.z>>

\* unsigned int boundsIndices[], lines 250-254
boundsIndices ==
    <<0, 1, 3, 1, 2, 0, 2, 3,
      4, 5, 7, 5, 6, 4, 6, 7,
      0, 4, 1, 5, 2, 6, 3, 7>>

\* lines 256-273: the bounds vertex array with its vertex and index buffer;
\* neither buffer is ever passed to glDeleteBuffers
UploadBounds(ctx, data) ==
    UNION {UNION {
        {[ctx |-> glBufferData(glBindElementBuffer(ebo.ctx, b.name, ebo.name),
                               ebo.name, Len(boundsIndices)),
          bounds |-> b.name] :
            ebo \in glGenBuffers(
                        glVertexAttribPointer0(
                            glBufferData(vbo.ctx, vbo.name, Len(data)),
                            b.name, vbo.name))} :
        vbo \in glGenBuffers(b.ctx)} :
        b \in glGenVertexArrays(ctx)}

\* loadScene(filename, bounds, meshes): ret and shapes are what
\* tinyobj::LoadObj answers for filename; a failed load ends the process
\* with exit(1), an abort with status 134
loadScene(ctx, ret, shapes, b, ms, data) ==
    IF ~ret
    THEN {[exit |-> 1, ctx |-> ctx, bounds |-> b, meshes |-> ms, boundsData |-> data]}
    ELSE UNION {IF ld.abort
                THEN {[exit |-> 134, ctx |-> ld.ctx, bounds |-> b, meshes |-> ld.meshes,
                       boundsData |-> data]}
                ELSE {[exit |-> -1, ctx |-> ub.ctx, bounds |-> ub.bounds,
                       meshes |-> ld.meshes,
                       boundsData |-> BoundsData(ld.mm.min, ld.mm.max)] :
                        ub \in UploadBounds(ld.ctx, BoundsData(ld.mm.min, ld.mm.max))} :
                  ld \in LoadShapes(ctx, shapes, 1,
                                    [min |-> Vec3(0, 0, 0), max |-> Vec3(0, 0, 0)], ms)}

----------------------------------------------------------------------------
(* loadSceneFile *)

\* lines 283-288: the vertex arrays of the current scene are deleted
RECURSIVE DeleteMeshes(_, _, _)
DeleteMeshes(ctx, ms, i) ==
    IF i > Len(ms) THEN ctx
    ELSE DeleteMeshes(glDeleteVertexArrays(ctx, ms[i][1]), ms, i + 1)

DeleteScene(ctx, b, ms) ==
    DeleteMeshes(IF b # 0 THEN glDeleteVertexArrays(ctx, b) ELSE ctx, ms, 1)

\* meshes left as it was
KeepMeshes(ms) == ms

\* line 290: meshes.clear()
ClearMeshes(ms) == << >>

\* loadSceneFile(bounds, meshes): picked is FALSE when the dialog returns NULL
loadSceneFile(ctx, picked, ret, shapes, b, ms, data) ==
    IF ~picked
    THEN {[exit |-> -1, ctx |-> ctx, bounds |-> b, meshes |-> ms, boundsData |-> data]}
    ELSE loadScene(DeleteScene(ctx, b, ms), ret, shapes, 0, ClearMeshes(ms), data)

----------------------------------------------------------------------------
(* Inputs of Spec: what tinyobj::LoadObj may answer *)

\* n floats, no two alike in sign and size
Ramp(n) == [i \in 1..n |-> IF i % 2 = 0 THEN -i ELSE i]

\* a shape with k position triples and m normal triples; faces without
\* normals ("f 1 2 3" rather than "f 1//1 2//2 3//3") give m < k
ShapeOf(k, m) == [positions |-> Ramp(3 * k), normals |-> [i \in 1..(3 * m) |-> 0]]

SceneShapes == UNION {{ShapeOf(k, m) : m \in 0..k} : k \in 0..MaxVerts}

ShapeLists(S, n) == UNION {[1..k -> S] : k \in 0..n}

----------------------------------------------------------------------------
(* main: shaders, scene, draws *)

\* the GL context: its vertex array and buffer tables and name counters
ctxNow == [vaos |-> glVAOs, bufs |-> glBuffers, vaoTop |-> genVAO, bufTop |-> genBuffer]

\* lines 333-340 when the driver answers within outcomes: both createShader
\* calls; their results are not looked at
StartupWith(outcomes) ==
    /\ pc = "startup"
    /\ \E o1 \in outcomes, o2 \in outcomes :
          \E s1 \in createShader(pointcloundShader, o1, glPrograms) :
             \E s2 \in createShader(shapeShader, o2, s1.programs) :
                /\ pointcloundShader' \in Held(s1, s2.programs)
                /\ shapeShader' \in Held(s2, s2.programs)
                /\ glPrograms' = s2.programs
                /\ shaderOk' = [point |-> s1.ok, shape |-> s2.ok]
    /\ pc' = "top"
    /\ UNCHANGED <<exitCode, shouldClose, glVAOs, glBuffers, genVAO, genBuffer, bounds, meshes,
                   boundsData, drawBounds, loads, loadResult, draws, objFile>>
    /\ UNCHANGED <<viewVars, cameraVars, pacingVars>>

Startup == StartupWith(ShaderOutcomes)

\* a start in which both programs build
StartupBuilt == StartupWith({"ok"})

\* line 397: while (!glfwWindowShouldClose(window)), loop entered
LoopEnter ==
    /\ pc = "top"
    /\ ~shouldClose
    /\ pc' = "gui"
    /\ draws' = << >>
    /\ UNCHANGED <<exitCode, shouldClose, glPrograms, glVAOs, glBuffers, genVAO,
                   genBuffer, shaderOk,
                   pointcloundShader, shapeShader, bounds, meshes, boundsData,
                   drawBounds, loads, loadResult, objFile>>
    /\ UNCHANGED <<viewVars, cameraVars, pacingVars>>

\* lines 415-430 with the given inputs: "Load Scene" clicked or not, the
\* dialog's answer, the loader's answer
GuiMenu(click, picked, ret, shapes) ==
    /\ pc = "gui"
    /\ \E r \in (IF click
                THEN loadSceneFile(ctxNow, picked, ret, shapes, bounds, meshes, boundsData)
                ELSE {[exit |-> -1, ctx |-> ctxNow, bounds |-> bounds,
                       meshes |-> meshes, boundsData |-> boundsData]}) :
          /\ glVAOs' = r.ctx.vaos
          /\ glBuffers' = r.ctx.bufs
          /\ genVAO' = r.ctx.vaoTop
          /\ genBuffer' = r.ctx.bufTop
          /\ bounds' = r.bounds
          /\ meshes' = r.meshes
          /\ boundsData' = r.boundsData
          /\ loads' = IF click /\ picked THEN loads + 1 ELSE loads
          /\ loadResult' = IF click /\ picked
                           THEN (IF ret THEN "ok" ELSE "failed")
                           ELSE loadResult
          /\ pc' = IF r.exit # -1 THEN "exited" ELSE "gui_rendering"
          /\ exitCode' = r.exit
    /\ UNCHANGED <<shouldClose, glPrograms, shaderOk, pointcloundShader,
                   shapeShader, drawBounds, draws, objFile>>
    /\ UNCHANGED <<viewVars, cameraVars, pacingVars>>

\* a frame without a "Load Scene" click, or with the dialog cancelled
GuiIdle == \E click \in BOOLEAN : GuiMenu(click, FALSE, FALSE, << >>)

\* "Load Scene" clicked, a file chosen, and LoadObj fails on it
GuiLoadFails ==
    /\ loads < MaxLoads
    /\ GuiMenu(TRUE, TRUE, FALSE, << >>)

\* "Load Scene" clicked, a file chosen, and LoadObj returns its shapes
GuiLoad ==
    /\ loads < MaxLoads
    /\ \E shapes \in ShapeLists(SceneShapes, MaxShapes) :
          GuiMenu(TRUE, TRUE, TRUE, shapes)

\* lines 432-452: the "Bounds" checkbox of the rendering window
GuiRendering ==
    /\ pc = "gui_rendering"
    /\ \E toggle \in BOOLEAN : drawBounds' = IF toggle THEN ~drawBounds ELSE drawBounds
    /\ pc' = "draw_points"
    /\ UNCHANGED <<exitCode, shouldClose, glPrograms, glVAOs, glBuffers, genVAO,
                   genBuffer, shaderOk,
                   pointcloundShader, shapeShader, bounds, meshes, boundsData,
                   loads, loadResult, draws, objFile>>
    /\ UNCHANGED <<viewVars, cameraVars, pacingVars>>

\* one glBindVertexArray + draw call, with whether the name bound is that of
\* a live vertex array at the time
DrawCall(kind, prog, vao, count) ==
    [kind |-> kind, prog |-> prog, vao |-> vao, count |-> count,
     live |-> vao \in DOMAIN glVAOs]

\* lines 496-518: one GL_POINTS draw per entry of meshes
DrawPoints ==
    /\ pc = "draw_points"
    /\ draws' = draws \o [i \in 1..Len(meshes) |->
                    DrawCall("points", pointcloundShader, meshes[i][1], meshes[i][2])]
    /\ pc' = "draw_bounds"
    /\ UNCHANGED <<exitCode, shouldClose, glPrograms, glVAOs, glBuffers, genVAO,
                   genBuffer, shaderOk,
                   pointcloundShader, shapeShader, bounds, meshes, boundsData,
                   drawBounds, loads, loadResult, objFile>>
    /\ UNCHANGED <<viewVars, cameraVars, pacingVars>>

\* lines 520-528: the wireframe draw
DrawBoundsStep ==
    /\ pc = "draw_bounds"
    /\ draws' = IF bounds # 0 /\ drawBounds
                THEN Append(draws, DrawCall("lines", shapeShader, bounds, Len(boundsIndices)))
                ELSE draws
    /\ pc' = "poll"
    /\ UNCHANGED <<exitCode, shouldClose, glPrograms, glVAOs, glBuffers, genVAO,
                   genBuffer, shaderOk,
                   pointcloundShader, shapeShader, bounds, meshes, boundsData,
                   drawBounds, loads, loadResult, objFile>>
    /\ UNCHANGED <<viewVars, cameraVars, pacingVars>>

\* lines 533-534 and key_callback: Escape or the close button may arrive
PollEvents ==
    /\ pc = "poll"
    /\ \E close \in BOOLEAN : shouldClose' = (shouldClose \/ close)
    /\ pc' = "top"
    /\ UNCHANGED <<exitCode, glPrograms, glVAOs, glBuffers, genVAO,
                   genBuffer, shaderOk,
                   pointcloundShader, shapeShader, bounds, meshes, boundsData,
                   drawBounds, loads, loadResult, draws, objFile>>
    /\ UNCHANGED <<viewVars, cameraVars, pacingVars>>

\* lines 537-544: the loop left, the scene's vertex arrays deleted, exit
Cleanup ==
    /\ pc = "top"
    /\ shouldClose
    /\ LET c == glDeleteVertexArrays(DeleteMeshes(ctxNow, meshes, 1), bounds)
       IN glVAOs' = c.vaos /\ glBuffers' = c.bufs
    /\ pc' = "exited"
    /\ exitCode' = 0
    /\ UNCHANGED <<shouldClose, glPrograms, genVAO, genBuffer, shaderOk,
                   pointcloundShader, shapeShader, bounds, meshes, boundsData,
                   drawBounds, loads, loadResult, draws, objFile>>
    /\ UNCHANGED <<viewVars, cameraVars, pacingVars>>

----------------------------------------------------------------------------
(* main: framebuffer size, aspect ratio, projection, viewport *)

WIN_WIDTH == 1024
WIN_HEIGHT == 480

\* framebuffer sizes the window may be given or resized to (height > 0)
FbSizes ==
    {<<WIN_WIDTH, WIN_HEIGHT>>, <<2 * WIN_WIDTH, 2 * WIN_HEIGHT>>,
     <<WIN_WIDTH \div 2, WIN_HEIGHT>>, <<WIN_WIDTH, WIN_HEIGHT \div 2>>,
     <<WIN_HEIGHT, WIN_HEIGHT>>}

RECURSIVE Gcd(_, _)
Gcd(a, b) == IF b = 0 THEN a ELSE Gcd(b, a % b)

\* width / (float)height, as the value of the quotient
Ratio(w, h) == <<w \div Gcd(w, h), h \div Gcd(w, h)>>

\* lines 342-346 and 371
ViewStartup ==
    /\ vpc = "startup"
    /\ width' = fbSize[1]
    /\ height' = fbSize[2]
    /\ ratio' = Ratio(width', height')
    /\ projT' = ratio'
    /\ vpc' = "update"
    /\ UNCHANGED <<fbSize, viewport>>
    /\ UNCHANGED <<sceneVars, cameraVars, pacingVars>>

\* lines 482-491: projT is built from ratio, then the framebuffer size is
\* read, ratio recomputed and the viewport set
UpdateMVP ==
    /\ vpc = "update"
    /\ projT' = ratio
    /\ width' = fbSize[1]
    /\ height' = fbSize[2]
    /\ ratio' = Ratio(width', height')
    /\ viewport' = <<width', height'>>
    /\ vpc' = "drawn"
    /\ UNCHANGED fbSize
    /\ UNCHANGED <<sceneVars, cameraVars, pacingVars>>

\* line 534: a resize may arrive with the polled events
ViewPollEvents ==
    /\ vpc = "drawn"
    /\ fbSize' \in FbSizes
    /\ vpc' = "update"
    /\ UNCHANGED <<width, height, ratio, projT, viewport>>
    /\ UNCHANGED <<sceneVars, cameraVars, pacingVars>>

----------------------------------------------------------------------------
(* main: mouse look.  Angles in 1e-5 rad, sensitivity in tenths. *)

MaxYaw == 120000           \* |yaw| explored
MaxCameraFrames == 3       \* camera frames explored
StepDelta == 30            \* a small cursor move, pixels
BigDelta == 100000         \* a huge cursor move, pixels

\* glm::eulerAngles(glm::quat(-0.83, 0.14, 0.53, -0.09)), line 369
InitPitch == -69083
InitYaw == -102478

\* const float half_pi = 3.1415 * 0.5f
half_pi == (314150 * 5) \div 10

\* q * 174.5329252, cut to a whole number, for q >= 0: the product is
\* summed digit group by digit group so that no term leaves 32 bits
TimesDegree(q) ==
    LET t1 == q * 5              \* q * 0.5, in 1e-1
        t2 == q * 329            \* q * 0.0329, in 1e-4
        t3 == q * 252            \* q * 0.0000252, in 1e-7
        rest == (t1 % 10) * 1000000 + (t2 % 10000) * 1000 + (t3 % 10000000)
    IN q * 174 + t1 \div 10 + t2 \div 10000 + t3 \div 10000000 + rest \div 10000000

\* glm::radians(d) * mouseSensitivity, in 1e-5 rad: d pixels are degrees,
\* pi / 180 = 0.01745329252, sens is in tenths
Turn(d, sens) ==
    IF d >= 0 THEN TimesDegree(d * sens) ELSE -TimesDegree(-d * sens)

\* a clamp that only cuts off above
clampAbove(x, minVal, maxVal) == IF maxVal < x THEN maxVal ELSE x

\* glm::clamp(x, minVal, maxVal) = min(max(x, minVal), maxVal)
clamp(x, minVal, maxVal) ==
    LET m == IF x < minVal THEN minVal ELSE x
    IN IF maxVal < m THEN maxVal ELSE m

MouseDeltas == {-BigDelta, -StepDelta, 0, StepDelta, BigDelta}

\* values typed into "Mouse Sensitivity", in tenths
SensitivityInputs == {0, 3, 10, 25}

\* lines 424-425
SetMouseSensitivity ==
    /\ \E v \in SensitivityInputs : mouseSensitivity' = clamp(v, 1, 10)
    /\ mouseSensitivity' # mouseSensitivity
    /\ UNCHANGED <<angles, camRot, rotated, camFrames>>
    /\ UNCHANGED <<sceneVars, viewVars, pacingVars>>

\* lines 455-476 with the right button held
CameraRotate ==
    /\ camFrames < MaxCameraFrames
    /\ \E dx \in MouseDeltas, dy \in MouseDeltas :
          LET yaw == angles.y + Turn(dx, mouseSensitivity)
              pitch == clamp(angles.x - Turn(dy, mouseSensitivity), -half_pi, half_pi)
          IN /\ -MaxYaw <= yaw /\ yaw <= MaxYaw
             /\ angles' = [x |-> pitch, y |-> yaw]
             /\ camRot' = [pitch |-> pitch, yaw |-> yaw]
    /\ rotated' = TRUE
    /\ camFrames' = camFrames + 1
    /\ UNCHANGED mouseSensitivity
    /\ UNCHANGED <<sceneVars, viewVars, pacingVars>>

\* lines 455-476 with the right button released
CameraIdle ==
    /\ camFrames < MaxCameraFrames
    /\ rotated' = FALSE
    /\ camFrames' = camFrames + 1
    /\ UNCHANGED <<angles, camRot, mouseSensitivity>>
    /\ UNCHANGED <<sceneVars, viewVars, pacingVars>>

----------------------------------------------------------------------------
(* main: frame pacing.  Durations in ticks, frameTime ticks = 1/60 s. *)

frameTime == 20            \* std::chrono::duration<double, std::nano> frameTime(1e9 / 60)
NumFrames == 100           \* intervals averaged
MaxWork == 2               \* longest loop body, ticks
MaxOversleep == 1          \* longest oversleep of sleep_for, ticks
HugeDuration == 1000000    \* a duration far longer than the frames observed, ticks

\* a duration<double, std::nano>: a number of ticks, or NaN
Ticks(t) == [nan |-> FALSE, ticks |-> t]
NaN == [nan |-> TRUE, ticks |-> 0]

\* a + b on doubles
Plus(a, b) == IF a.nan \/ b.nan THEN NaN ELSE Ticks(a.ticks + b.ticks)

\* a < b on doubles: false when either is NaN
Less(a, b) == ~a.nan /\ ~b.nan /\ a.ticks < b.ticks

\* values the uninitialized durations elapsed and carry may hold when read,
\* one of each kind the loop can tell apart: far below zero, zero, between
\* zero and frameTime, frameTime, far above frameTime, NaN
IndeterminateDurations ==
    {Ticks(t) : t \in {-HugeDuration, 0, frameTime \div 2, frameTime, HugeDuration}}
        \cup {NaN}

\* elapsed and carry are first assigned by the first pass of lines 399-410
Read(d) == IF frames = 0 THEN IndeterminateDurations ELSE {d}

\* lines 399-410: the sleep, then the frame timestamp.  carry is read only
\* when the sleep is skipped.
PaceAndStamp ==
    /\ ppc = "top"
    /\ frames <= NumFrames
    /\ \E e \in Read(elapsed) :
          \E c \in (IF Less(e, Ticks(frameTime)) THEN {NaN} ELSE Read(carry)),
             over \in (IF Less(e, Ticks(frameTime)) THEN 0..MaxOversleep ELSE {0}) :
             LET sleepTime == frameTime - e.ticks
                 slept == IF Less(e, Ticks(frameTime)) THEN sleepTime + over ELSE 0
                 carry1 == IF Less(e, Ticks(frameTime)) THEN Ticks(sleepTime - slept) ELSE c
             IN /\ clock' = clock + slept
                /\ carry' = carry1
                /\ end' = clock'
                /\ elapsed' = Plus(Ticks(end' - start), carry1)
                /\ delta' = end' - start
                /\ start' = end'
    /\ frames' = frames + 1
    /\ firstEnd' = IF frames = 0 THEN end' ELSE firstEnd
    /\ ppc' = "body"
    /\ UNCHANGED <<sceneVars, viewVars, cameraVars>>

\* lines 412-534: the rest of the iteration takes some time
FrameBody ==
    /\ ppc = "body"
    /\ \E w \in 0..MaxWork : clock' = clock + w
    /\ ppc' = "top"
    /\ UNCHANGED <<start, end, elapsed, carry, delta, frames, firstEnd>>
    /\ UNCHANGED <<sceneVars, viewVars, cameraVars>>

----------------------------------------------------------------------------
(* Inputs of SpecBounds: the file loadScene is given *)

BMaxShapes == 2            \* shapes in the file
BMaxVerts == 2             \* vertices per shape

\* vertices of the files tried
BoundsVertices == {<<2, 2, 2>>, <<-3, 1, -1>>, <<1, -3, 4>>}

RECURSIVE Concat(_)
Concat(ss) == IF ss = << >> THEN << >> ELSE Head(ss) \o Concat(Tail(ss))

\* well-formed shapes: k vertices of BoundsVertices, k normals
BoundsShapes ==
    {[positions |-> Concat(vs), normals |-> [i \in 1..(3 * Len(vs)) |-> 0]] :
        vs \in ShapeLists(BoundsVertices, BMaxVerts)}

\* "Load Scene" clicked and the file chosen, which loads
LoadObjFile ==
    /\ loads = 0
    /\ GuiMenu(TRUE, TRUE, TRUE, objFile)

----------------------------------------------------------------------------
(* Specifications *)

\* main() at line 333, before the first createShader call
Init ==
    /\ pc = "startup"
    /\ exitCode = -1
    /\ shouldClose = FALSE
    /\ glPrograms = << >>
    /\ glVAOs = << >>
    /\ glBuffers = << >>
    /\ genVAO = 0
    /\ genBuffer = 0
    /\ shaderOk = [point |-> FALSE, shape |-> FALSE]
    /\ pointcloundShader = Uninit
    /\ shapeShader = Uninit
    /\ bounds = 0
    /\ meshes = << >>
    /\ boundsData = << >>
    /\ drawBounds = TRUE
    /\ loads = 0
    /\ loadResult = "none"
    /\ draws = << >>
    /\ objFile = << >>
    /\ fbSize = <<WIN_WIDTH, WIN_HEIGHT>>
    /\ width = Uninit
    /\ height = Uninit
    /\ ratio = Uninit
    /\ projT = Uninit
    /\ viewport = <<WIN_WIDTH, WIN_HEIGHT>>
    /\ vpc = "startup"
    /\ angles = [x |-> InitPitch, y |-> InitYaw]
    /\ camRot = [pitch |-> InitPitch, yaw |-> InitYaw]
    /\ mouseSensitivity = 7
    /\ rotated = FALSE
    /\ camFrames = 0
    /\ clock = 0
    /\ start = 0
    /\ end = 0
    /\ elapsed = Uninit
    /\ carry = Uninit
    /\ delta = 0
    /\ ppc = "top"
    /\ frames = 0
    /\ firstEnd = 0

Next == Startup \/ LoopEnter \/ GuiIdle \/ GuiLoadFails \/ GuiLoad \/ GuiRendering
            \/ DrawPoints \/ DrawBoundsStep \/ PollEvents \/ Cleanup

Spec == Init /\ [][Next]_vars

\* the runs of Spec in which both shader programs build
NextScene == StartupBuilt \/ LoopEnter \/ GuiIdle \/ GuiLoadFails \/ GuiLoad \/ GuiRendering
                 \/ DrawPoints \/ DrawBoundsStep \/ PollEvents \/ Cleanup

SpecScene == Init /\ [][NextScene]_vars

\* the first GUI phase of a run whose shaders both built, with the file the
\* user is about to choose
InitBounds ==
    /\ pc = "gui"
    /\ exitCode = -1
    /\ shouldClose = FALSE
    /\ \E s1 \in createShader(0, "ok", << >>) :
          \E s2 \in createShader(0, "ok", s1.programs) :
             /\ glPrograms = s2.programs
             /\ pointcloundShader = s1.prog
             /\ shapeShader = s2.prog
    /\ glVAOs = << >>
    /\ glBuffers = << >>
    /\ genVAO = 0
    /\ genBuffer = 0
    /\ shaderOk = [point |-> TRUE, shape |-> TRUE]
    /\ bounds = 0
    /\ meshes = << >>
    /\ boundsData = << >>
    /\ drawBounds = TRUE
    /\ loads = 0
    /\ loadResult = "none"
    /\ draws = << >>
    /\ objFile \in ShapeLists(BoundsShapes, BMaxShapes)
    /\ fbSize = <<WIN_WIDTH, WIN_HEIGHT>>
    /\ width = Uninit
    /\ height = Uninit
    /\ ratio = Uninit
    /\ projT = Uninit
    /\ viewport = <<WIN_WIDTH, WIN_HEIGHT>>
    /\ vpc = "startup"
    /\ angles = [x |-> InitPitch, y |-> InitYaw]
    /\ camRot = [pitch |-> InitPitch, yaw |-> InitYaw]
    /\ mouseSensitivity = 7
    /\ rotated = FALSE
    /\ camFrames = 0
    /\ clock = 0
    /\ start = 0
    /\ end = 0
    /\ elapsed = Uninit
    /\ carry = Uninit
    /\ delta = 0
    /\ ppc = "top"
    /\ frames = 0
    /\ firstEnd = 0

NextBounds == LoadObjFile

SpecBounds == InitBounds /\ [][NextBounds]_vars

NextView == ViewStartup \/ UpdateMVP \/ ViewPollEvents

SpecView == Init /\ [][NextView]_vars

NextCamera == SetMouseSensitivity \/ CameraRotate \/ CameraIdle

SpecCamera == Init /\ [][NextCamera]_vars

NextPacing == PaceAndStamp \/ FrameBody

SpecPacing == Init /\ [][NextPacing]_vars

----------------------------------------------------------------------------
(* Properties *)

InLoop == pc \in {"gui", "gui_rendering", "draw_points", "draw_bounds", "poll"}

\* the vertex array names the program holds for the current scene
SceneHandles == {meshes[i][1] : i \in 1..Len(meshes)} \cup ({bounds} \ {0})

\* number of vertices (triples) in the position buffer of a live mesh vertex array
PositionTriples(v) == glBuffers[glVAOs[v].a0].size \div 3

\* the shape a live mesh vertex array was built from had as many normals as positions
WellFormed(v) ==
    /\ glBuffers[glVAOs[v].a0].size = glBuffers[glVAOs[v].a1].size
    /\ glBuffers[glVAOs[v].a0].size > 0

\* C1: a reload that fails while a scene is current leaves that scene's
\* vertex arrays and buffers allocated, leaves it the scene that is drawn,
\* and the render loop goes on.
ReloadFailureKeepsScene ==
    [][(pc = "gui" /\ bounds # 0 /\ loadResult' = "failed")
           => /\ pc' = "gui_rendering"
              /\ glVAOs' = glVAOs
              /\ glBuffers' = glBuffers
              /\ meshes' = meshes
              /\ bounds' = bounds]_vars

\* C2: the count recorded for a shape with N position triples and N normal
\* triples is N, and each point draw is submitted with that count.
VertexCountIsTripleCount ==
    /\ \A i \in 1..Len(meshes) :
          (meshes[i][1] \in DOMAIN glVAOs /\ WellFormed(meshes[i][1]))
              => meshes[i][2] = PositionTriples(meshes[i][1])
    /\ \A i \in 1..Len(draws) :
          (draws[i].kind = "points" /\ draws[i].vao \in DOMAIN glVAOs
              /\ WellFormed(draws[i].vao))
              => draws[i].count = PositionTriples(draws[i].vao)

\* C3: while the loop runs, every allocated vertex array is one of the
\* current scene and every allocated buffer is attached to one of them:
\* nothing allocated for an earlier scene remains.
NoLeakAcrossReloads ==
    InLoop => /\ DOMAIN glVAOs = SceneHandles
              /\ DOMAIN glBuffers = Attached(glVAOs)

\* C7: no mesh of the scene, and no point draw, comes from a shape whose
\* positions are empty or differ in number from its normals.
MalformedShapeRejected ==
    /\ \A i \in 1..Len(meshes) :
          meshes[i][1] \in DOMAIN glVAOs => WellFormed(meshes[i][1])
    /\ \A i \in 1..Len(draws) :
          (draws[i].kind = "points" /\ draws[i].vao \in DOMAIN glVAOs)
              => WellFormed(draws[i].vao)

\* C8: when createShader returned false for either program, the render loop
\* is not entered and nothing is drawn.
ShaderFailureFatal ==
    (pc # "startup" /\ ~(shaderOk.point /\ shaderOk.shape))
        => (~InLoop /\ draws = << >>)

\* C9: every vertex array bound by a draw call is allocated when it is
\* bound, and in the draw phase of a frame every handle the scene holds is
\* an allocated vertex array.
DrawsBindLiveHandles ==
    /\ \A i \in 1..Len(draws) : draws[i].live
    /\ pc \in {"draw_points", "draw_bounds"} => SceneHandles \subseteq DOMAIN glVAOs

\* a frame after a second load has drawn a mesh and the bounds
DrawsAfterReplacement ==
    /\ loads >= 2
    /\ pc = "poll"
    /\ \E i \in 1..Len(draws) : draws[i].kind = "points"
    /\ \E i \in 1..Len(draws) : draws[i].kind = "lines"

\* C10: a frame is drawn with the projection of the aspect ratio of the
\* framebuffer size it set as its viewport.
ProjectionMatchesViewport ==
    vpc = "drawn" => projT = Ratio(viewport[1], viewport[2])

\* C4: over NumFrames consecutive frame intervals the average interval is
\* within 5% of frameTime.
AverageIntervalNearTarget ==
    frames = NumFrames + 1
        => LET total == end - firstEnd
               target == NumFrames * frameTime
           IN /\ 20 * (total - target) <= target
              /\ 20 * (target - total) <= target

\* pi / 2 in 1e-5 rad, rounded down
PiHalf == 314159 \div 2

\* C5: the pitch, and the pitch the orientation was last built from, lie
\* within [-pi/2, pi/2].
PitchWithinHalfPi ==
    /\ -PiHalf <= angles.x /\ angles.x <= PiHalf
    /\ -PiHalf <= camRot.pitch /\ camRot.pitch <= PiHalf

\* a rotate frame whose cursor move was cut off by the clamp
PitchClamped == rotated /\ angles.x = -half_pi /\ camRot.pitch = -half_pi

Min(S) == CHOOSE m \in S : \A n \in S : m <= n
Max(S) == CHOOSE m \in S : \A n \in S : n <= m

\* the origin's coordinate together with coordinate c (0 = x, 1 = y, 2 = z)
\* of every vertex of every shape of the file
AxisValues(c) ==
    {0} \cup UNION {{objFile[i].positions[j] :
                        j \in {k \in 1..Len(objFile[i].positions) : k % 3 = (c + 1) % 3}} :
                    i \in 1..Len(objFile)}

RefMin == Vec3(Min(AxisValues(0)), Min(AxisValues(1)), Min(AxisValues(2)))
RefMax == Vec3(Max(AxisValues(0)), Max(AxisValues(1)), Max(AxisValues(2)))

\* C6: the corners uploaded by a load are those of the box from the
\* component-wise minimum to the component-wise maximum of the origin and
\* all vertices; so min <= 0 <= max on each axis.
BoundsEqualOriginSeededReference ==
    (loads = 1 /\ pc # "exited") =>
        /\ boundsData = BoundsData(RefMin, RefMax)
        /\ \A c \in 1..3 : boundsData[c] <= 0 /\ 0 <= boundsData[21 + c]
        /\ (\A i \in 1..Len(objFile) : objFile[i].positions = << >>)
              => boundsData = [i \in 1..24 |-> 0]

\* a file of the single point (2, 2, 2) was loaded: min is the origin
SinglePositivePointLoaded ==
    /\ loads = 1
    /\ pc # "exited"
    /\ Len(objFile) = 1
    /\ objFile[1].positions = <<2, 2, 2>>
    /\ boundsData[1] = 0 /\ boundsData[2] = 0 /\ boundsData[3] = 0
    /\ boundsData[22] = 2 /\ boundsData[23] = 2 /\ boundsData[24] = 2

====
